---- MODULE Spec2Model ----
(***************************************************************************)
(* Model of the composition-time-to-sample table box (ctts) of mp4-rust:   *)
(* src/src/mp4box/ctts.rs.  A table is written with write_box, the bytes   *)
(* are handed (possibly padded, re-declared or truncated by another        *)
(* encoder or a faulty transport) to a reader, which reads the box header  *)
(* and then calls read_box with the header's declared size.                *)
(*                                                                         *)
(* Integer widths are scaled: a byte carries ByteBits bits instead of 8,   *)
(* so u8 is one byte, the flags field three bytes and u32/i32 four bytes   *)
(* of ByteBits bits each.  All field widths in bytes are the program's.    *)
(***************************************************************************)
EXTENDS Integers, Sequences, FiniteSets, TLC

\* ------------------------------------------------------------- bounds
ByteBits == 2
MaxEntries == 2
MaxPad == 2

\* ------------------------------------------------------------- widths
ByteMod == 2 ^ ByteBits
U8Mod == ByteMod
U24Mod == ByteMod ^ 3
U32Mod == ByteMod ^ 4
U32Max == U32Mod - 1
I32Min == 0 - (U32Mod \div 2)
I32Max == (U32Mod \div 2) - 1

\* ------------------------------------------------------------- constants of mp4box
HEADER_SIZE == 8
HEADER_EXT_SIZE == 4

\* One character code as a byte of the model.
AsByte(c) == c % ByteMod

\* The type tag of the composition-time table box, "ctts".
CttsBoxTag == <<AsByte(99), AsByte(116), AsByte(116), AsByte(115)>>

\* The type tag of the neighbouring boxes of the stream, "free".
FreeBoxTag == <<AsByte(102), AsByte(114), AsByte(101), AsByte(101)>>

\* ------------------------------------------------------------- byte order
\* to_be_bytes: the n big-endian bytes of v, in two's complement when v < 0.
BigEndian(v, n) == [i \in 1..n |-> (v \div (ByteMod ^ (n - i))) % ByteMod]

\* from_be_bytes, unsigned: the value of the n bytes of buf after offset off.
RECURSIVE BigEndianValue(_, _, _)
BigEndianValue(buf, off, n) ==
    IF n = 0 THEN 0
    ELSE BigEndianValue(buf, off, n - 1) * ByteMod + buf[off + n]

\* `x as u32`: narrowing keeps the low four bytes.
AsU32(x) == x % U32Mod

\* `x as i32` of a four-byte pattern: the top bit is the sign.
AsI32(u) == IF u >= U32Mod \div 2 THEN u - U32Mod ELSE u

Take(s, n) == IF n >= Len(s) THEN s ELSE SubSeq(s, 1, n)

Min(a, b) == IF a <= b THEN a ELSE b

\* ------------------------------------------------------------- CttsBox
NoBox == [version |-> 0, flags |-> 0, entries |-> <<>>]

\* get_size without the four bytes of the entry count.
get_size_without_count(T) == HEADER_SIZE + HEADER_EXT_SIZE + (8 * Len(T.entries))

get_size(T) == HEADER_SIZE + HEADER_EXT_SIZE + 4 + (8 * Len(T.entries))

box_size(T) == get_size(T)

box_type(T) == CttsBoxTag

\* ------------------------------------------------------------- the writer
\* A writer (W: Write) accepts `room` bytes and rejects what is beyond them;
\* Unlimited is the growable Vec<u8> of the tests.
Unlimited == 0 - 1

Fits(len, room) == room = Unlimited \/ len <= room

Accepted(bytes, room) == IF room = Unlimited THEN bytes ELSE Take(bytes, room)

\* BoxHeader::write: the size as four bytes, then the type tag.
BoxHeader_write(name, size) == BigEndian(AsU32(size), 4) \o name

write_box_header_ext(version, flags) ==
    IF flags >= U24Mod
    THEN [ok |-> FALSE, err |-> "FlagsOverflow", bytes |-> <<>>]
    ELSE [ok |-> TRUE, err |-> "none",
          bytes |-> BigEndian(version * U24Mod + flags, 4)]

\* The loop of write_box over the entries: sample_count, then sample_offset,
\* four bytes each, entry after entry.
write_entries(entries) ==
    [j \in 1..(8 * Len(entries)) |->
        LET e == entries[((j - 1) \div 8) + 1]
            w == (j - 1) % 8
        IN IF w < 4 THEN BigEndian(e.sample_count, 4)[w + 1]
                    ELSE BigEndian(e.sample_offset, 4)[w - 3]]

\* write_box that drops the result of write_box_header_ext and goes on.
write_box_ignoring_ext(T, room) ==
    LET size == box_size(T)
        hdr == BoxHeader_write(box_type(T), size)
        ext == write_box_header_ext(T.version, T.flags)
        all == hdr \o ext.bytes \o BigEndian(AsU32(Len(T.entries)), 4)
                   \o write_entries(T.entries)
    IN IF ~Fits(Len(hdr), room)
       THEN [ok |-> FALSE, err |-> "IoWriteError", size |-> 0,
             out |-> Accepted(hdr, room)]
       ELSE IF ~Fits(Len(all), room)
       THEN [ok |-> FALSE, err |-> "IoWriteError", size |-> 0,
             out |-> Accepted(all, room)]
       ELSE [ok |-> TRUE, err |-> "none", size |-> size, out |-> all]

write_box(T, room) ==
    LET size == box_size(T)
        hdr == BoxHeader_write(box_type(T), size)
        ext == write_box_header_ext(T.version, T.flags)
        all == hdr \o ext.bytes \o BigEndian(AsU32(Len(T.entries)), 4)
                   \o write_entries(T.entries)
    IN IF ~Fits(Len(hdr), room)
       THEN [ok |-> FALSE, err |-> "IoWriteError", size |-> 0,
             out |-> Accepted(hdr, room)]
       ELSE IF ~ext.ok
       THEN [ok |-> FALSE, err |-> ext.err, size |-> 0, out |-> hdr]
       ELSE IF ~Fits(Len(all), room)
       THEN [ok |-> FALSE, err |-> "IoWriteError", size |-> 0,
             out |-> Accepted(all, room)]
       ELSE [ok |-> TRUE, err |-> "none", size |-> size, out |-> all]

\* ------------------------------------------------------------- the reader
\* A reader (R: Read + Seek) is the bytes buf and a position pos; a read of n
\* bytes needs them all (read_exact) and leaves the position where it began
\* when they are not there.
Available(buf, pos, n) == pos + n <= Len(buf)

read_u32(buf, pos) ==
    IF Available(buf, pos, 4)
    THEN [ok |-> TRUE, err |-> "none", value |-> BigEndianValue(buf, pos, 4),
          pos |-> pos + 4]
    ELSE [ok |-> FALSE, err |-> "TruncatedStream", value |-> 0, pos |-> pos]

read_i32(buf, pos) ==
    IF Available(buf, pos, 4)
    THEN [ok |-> TRUE, err |-> "none",
          value |-> AsI32(BigEndianValue(buf, pos, 4)), pos |-> pos + 4]
    ELSE [ok |-> FALSE, err |-> "TruncatedStream", value |-> 0, pos |-> pos]

\* BoxHeader::read: four bytes of size and four of type tag; a size of 1 is the
\* sentinel of an extended header, whose size is the eight bytes that follow.
BoxHeader_read(buf, pos) ==
    IF ~Available(buf, pos, 8)
    THEN [ok |-> FALSE, err |-> "TruncatedStream", name |-> <<>>, size |-> 0,
          pos |-> pos]
    ELSE LET size == BigEndianValue(buf, pos, 4)
             name == SubSeq(buf, pos + 5, pos + 8)
         IN IF size # 1
            THEN [ok |-> TRUE, err |-> "none", name |-> name, size |-> size,
                  pos |-> pos + 8]
            ELSE IF ~Available(buf, pos + 8, 8)
            THEN [ok |-> FALSE, err |-> "TruncatedStream", name |-> <<>>,
                  size |-> 0, pos |-> pos + 8]
            ELSE [ok |-> TRUE, err |-> "none", name |-> name,
                  size |-> BigEndianValue(buf, pos + 8, 8), pos |-> pos + 16]

\* box_start: the reader stands just after the 8-byte box header.
box_start(pos) == pos - HEADER_SIZE

read_box_header_ext(buf, pos) ==
    IF Available(buf, pos, 4)
    THEN LET word == BigEndianValue(buf, pos, 4)
         IN [ok |-> TRUE, err |-> "none", version |-> word \div U24Mod,
             flags |-> word % U24Mod, pos |-> pos + 4]
    ELSE [ok |-> FALSE, err |-> "TruncatedStream", version |-> 0, flags |-> 0,
          pos |-> pos]

\* skip_bytes_to: an absolute seek; a seek only sets the position, forward or
\* backward, within the bytes or beyond them.
skip_bytes_to(pos, target) == [ok |-> TRUE, err |-> "none", pos |-> target]

\* The loop of read_box that stops at the end of the stream and keeps the
\* entries read so far.
read_entries_partial(buf, pos, n) ==
    LET m == IF Available(buf, pos, 8 * n) THEN n ELSE (Len(buf) - pos) \div 8
    IN [ok |-> TRUE, err |-> "none",
        entries |-> [i \in 1..m |->
            [sample_count |-> read_u32(buf, pos + 8 * (i - 1)).value,
             sample_offset |-> read_i32(buf, pos + 8 * (i - 1) + 4).value]],
        pos |-> pos + 8 * m]

\* The loop of read_box: n times a sample_count and a sample_offset; the
\* first read the stream cannot serve fails the loop.
read_entries(buf, pos, n) ==
    IF Available(buf, pos, 8 * n)
    THEN [ok |-> TRUE, err |-> "none",
          entries |-> [i \in 1..n |->
              [sample_count |-> read_u32(buf, pos + 8 * (i - 1)).value,
               sample_offset |-> read_i32(buf, pos + 8 * (i - 1) + 4).value]],
          pos |-> pos + 8 * n]
    ELSE [ok |-> FALSE, err |-> "TruncatedStream", entries |-> <<>>,
          pos |-> pos + 4 * ((Len(buf) - pos) \div 4)]

Failed(err, pos) == [ok |-> FALSE, err |-> err, box |-> NoBox, pos |-> pos]

\* read_box that returns without the skip to the declared end.
read_box_without_skip(buf, pos, size) ==
    LET ext == read_box_header_ext(buf, pos)
        cnt == read_u32(buf, ext.pos)
        ents == read_entries(buf, cnt.pos, cnt.value)
    IN IF ~ext.ok THEN Failed(ext.err, ext.pos)
       ELSE IF ~cnt.ok THEN Failed(cnt.err, cnt.pos)
       ELSE IF ~ents.ok THEN Failed(ents.err, ents.pos)
       ELSE [ok |-> TRUE, err |-> "none",
             box |-> [version |-> ext.version, flags |-> ext.flags,
                      entries |-> ents.entries],
             pos |-> ents.pos]

\* read_box that accepts a box only when its entries end at its declared end.
read_box_exact_size(buf, pos, size) ==
    LET start == box_start(pos)
        ext == read_box_header_ext(buf, pos)
        cnt == read_u32(buf, ext.pos)
        ents == read_entries(buf, cnt.pos, cnt.value)
    IN IF ~ext.ok THEN Failed(ext.err, ext.pos)
       ELSE IF ~cnt.ok THEN Failed(cnt.err, cnt.pos)
       ELSE IF ~ents.ok THEN Failed(ents.err, ents.pos)
       ELSE IF ents.pos # start + size THEN Failed("SizeMismatch", ents.pos)
       ELSE [ok |-> TRUE, err |-> "none",
             box |-> [version |-> ext.version, flags |-> ext.flags,
                      entries |-> ents.entries],
             pos |-> ents.pos]

read_box(buf, pos, size) ==
    LET start == box_start(pos)
        ext == read_box_header_ext(buf, pos)
        cnt == read_u32(buf, ext.pos)
        ents == read_entries(buf, cnt.pos, cnt.value)
        skip == skip_bytes_to(ents.pos, start + size)
    IN IF ~ext.ok THEN Failed(ext.err, ext.pos)
       ELSE IF ~cnt.ok THEN Failed(cnt.err, cnt.pos)
       ELSE IF ~ents.ok THEN Failed(ents.err, ents.pos)
       ELSE IF ~skip.ok THEN Failed(skip.err, skip.pos)
       ELSE [ok |-> TRUE, err |-> "none",
             box |-> [version |-> ext.version, flags |-> ext.flags,
                      entries |-> ents.entries],
             pos |-> skip.pos]

\* ------------------------------------------------------------- inputs
Versions == {0, U8Mod - 1}

FlagsValues == {0, U24Mod - 1, U24Mod, U32Max}

EntryValues ==
    { [sample_count |-> 1, sample_offset |-> 0 - 1],
      [sample_count |-> U32Max, sample_offset |-> I32Min],
      [sample_count |-> 0, sample_offset |-> I32Max] }

\* Entry sequences of up to MaxEntries entries.
ShortEntries == UNION { [1..n -> EntryValues] : n \in 0..MaxEntries }

\* Entry sequences whose length reaches and exceeds what the four bytes of the
\* entry count hold.
LongEntries ==
    { [i \in 1..(U32Mod + j) |-> [sample_count |-> 1, sample_offset |-> 0 - 1]] :
        j \in 0..1 }

Tables ==
    { [version |-> v, flags |-> f, entries |-> e] :
        v \in Versions, f \in FlagsValues, e \in ShortEntries }
    \cup { [version |-> 0, flags |-> 0, entries |-> e] : e \in LongEntries }

\* The longest encoding of a short table.
MaxShortSize == HEADER_SIZE + HEADER_EXT_SIZE + 4 + 8 * MaxEntries

Rooms == {Unlimited} \cup 0..MaxShortSize

PadBytes == {0, ByteMod - 1}

\* An empty 8-byte box that stands before or after the table's box.
FreeBox == BoxHeader_write(FreeBoxTag, HEADER_SIZE)

\* Streams are cut at every point up to MaxCut, or not at all.
MaxCut == HEADER_SIZE + MaxShortSize + MaxPad

\* ------------------------------------------------------------- state
VARIABLES
    table,    \* the table handed to write_box
    room,     \* the bytes the writer accepts
    wres,     \* the result of write_box and the bytes the writer holds
    feed,     \* how the reader's stream was made from the written bytes
    buf,      \* the reader's stream
    pos,      \* the reader's position
    header,   \* the result of BoxHeader::read
    rres,     \* the result of read_box
    nxt,      \* the result of the header read that follows the box
    pc        \* the step of the flow

vars == <<table, room, wres, feed, buf, pos, header, rres, nxt, pc>>

NoWrite == [ok |-> FALSE, err |-> "none", size |-> 0, out |-> <<>>]

NoFeed == [lead |-> 0, pad |-> 0, declared |-> 0, follow |-> FALSE, full |-> 0]

NoHeader == [ok |-> FALSE, err |-> "none", name |-> <<>>, size |-> 0, pos |-> 0]

NoRead == [ok |-> FALSE, err |-> "none", box |-> NoBox, pos |-> 0]

Init ==
    /\ table \in Tables
    /\ room = Unlimited
    /\ wres = NoWrite
    /\ feed = NoFeed
    /\ buf = <<>>
    /\ pos = 0
    /\ header = NoHeader
    /\ rres = NoRead
    /\ nxt = NoHeader
    /\ pc = "init"

\* src_box.write_box(&mut buf)
WriteBox ==
    /\ pc = "init"
    /\ \E r \in Rooms :
        /\ room' = r
        /\ wres' = write_box(table, r)
    /\ pc' = "written"
    /\ UNCHANGED <<table, feed, buf, pos, header, rres, nxt>>

\* The box as it reaches a reader: the written bytes with the size field set
\* to d, k bytes c appended, possibly after and before an empty box, and cut
\* after cutAt bytes.
Redeclared(out, d) == BigEndian(AsU32(d), 4) \o SubSeq(out, 5, Len(out))

Padding(k, c) == [i \in 1..k |-> c]

DeclaredSizes(out, k) ==
    LET written == BigEndianValue(out, 0, 4)
    IN IF k = 0
       THEN {written, written - 1, HEADER_SIZE, 1, 0} \cap 0..U32Max
       ELSE {AsU32(written + k)}

Cuts(whole, follow) ==
    IF follow THEN {Len(whole)}
    ELSE {Len(whole)} \cup 0..Min(MaxCut, Len(whole))

Feed ==
    /\ pc = "written"
    /\ wres.ok
    /\ \E lead \in BOOLEAN, follow \in BOOLEAN, k \in 0..MaxPad, c \in PadBytes :
        \E d \in DeclaredSizes(wres.out, k) :
            LET box == Redeclared(wres.out, d) \o Padding(k, c)
                whole == (IF lead THEN FreeBox ELSE <<>>) \o box
                            \o (IF follow THEN FreeBox ELSE <<>>)
            IN \E cutAt \in Cuts(whole, follow) :
                /\ buf' = Take(whole, cutAt)
                /\ pos' = IF lead THEN Len(FreeBox) ELSE 0
                /\ feed' = [lead |-> IF lead THEN Len(FreeBox) ELSE 0,
                            pad |-> k, declared |-> d, follow |-> follow,
                            full |-> Len(whole)]
    /\ pc' = "fed"
    /\ UNCHANGED <<table, room, wres, header, rres, nxt>>

\* BoxHeader::read(&mut reader)
ReadHeader ==
    /\ pc = "fed"
    /\ header' = BoxHeader_read(buf, pos)
    /\ pos' = header'.pos
    /\ pc' = "header"
    /\ UNCHANGED <<table, room, wres, feed, buf, rres, nxt>>

\* CttsBox::read_box(&mut reader, header.size), the box the type tag selects
ReadBox ==
    /\ pc = "header"
    /\ header.ok
    /\ header.name = CttsBoxTag
    /\ rres' = read_box(buf, pos, header.size)
    /\ pos' = rres'.pos
    /\ pc' = "done"
    /\ UNCHANGED <<table, room, wres, feed, buf, header, nxt>>

\* The caller goes on to the next box of the stream.
ReadNext ==
    /\ pc = "done"
    /\ rres.ok
    /\ nxt' = BoxHeader_read(buf, pos)
    /\ pos' = nxt'.pos
    /\ pc' = "next"
    /\ UNCHANGED <<table, room, wres, feed, buf, header, rres>>

Next == WriteBox \/ Feed \/ ReadHeader \/ ReadBox \/ ReadNext

Spec == Init /\ [][Next]_vars

\* ------------------------------------------------------------- properties
\* read_box has returned (the caller may have gone on to the next header).
Returned == pc \in {"done", "next"}

\* The position of the reader when read_box was called.
Called == header.pos

\* The entry count that stands in the stream of the reader.
CountInStream == BigEndianValue(buf, Called + HEADER_EXT_SIZE, 4)

\* The reader's stream is the written bytes and nothing else.
FedAsWritten == buf = wres.out /\ feed.lead = 0

\* The signed value of a four-byte pattern.
Signed(u) == IF u > I32Max THEN u - U32Mod ELSE u

\* The four-byte pattern of a signed value.
Pattern(v) == IF v < 0 THEN v + U32Mod ELSE v

\* C1: a table written into an empty buffer and read back through a fresh
\* stream (header, then read_box with the header's size) is returned
\* unchanged: same version, same flags, same entries in the same order.
C1_RoundTrip ==
    (Returned /\ FedAsWritten) => (rres.ok /\ rres.box = table)

\* C2: box_size is 8 + 4 + 4 + 8 * n, and a successful write_box emits exactly
\* that many bytes and returns that number.
C2_SizeAccuracy ==
    (pc # "init" /\ wres.ok) =>
        LET expected == 8 + 4 + 4 + 8 * Len(table.entries)
        IN /\ box_size(table) = expected
           /\ Len(wres.out) = expected
           /\ wres.size = expected

C2_Witness ==
    /\ pc = "written"
    /\ wres.ok
    /\ Len(table.entries) >= 2
    /\ room = Len(wres.out)

\* C3: the bytes of a written box are, big-endian and in this order, the size
\* equal to box_size, the type tag, the version, the three bytes of flags, the
\* entry count equal to the number of entries, and per entry its sample_count
\* and its signed sample_offset; the header read back has that tag and size.
C3_WireLayout ==
    (pc # "init" /\ wres.ok) =>
        LET out == wres.out
            n == Len(table.entries)
            back == BoxHeader_read(out, 0)
        IN /\ Len(out) = 16 + 8 * n
           /\ BigEndianValue(out, 0, 4) = box_size(table)
           /\ SubSeq(out, 5, 8) = CttsBoxTag
           /\ out[9] = table.version
           /\ BigEndianValue(out, 9, 3) = table.flags
           /\ BigEndianValue(out, 12, 4) = n
           /\ \A i \in 1..n :
                /\ BigEndianValue(out, 16 + 8 * (i - 1), 4)
                     = table.entries[i].sample_count
                /\ BigEndianValue(out, 20 + 8 * (i - 1), 4)
                     = Pattern(table.entries[i].sample_offset)
           /\ back.ok
           /\ back.name = CttsBoxTag
           /\ back.size = box_size(table)

\* The stream holds an encoded box of the table, padded or not, whose declared
\* size covers its entries and its padding.
ValidBox ==
    /\ header.ok
    /\ Called = feed.lead + HEADER_SIZE
    /\ header.size = 16 + 8 * Len(table.entries) + feed.pad
    /\ (Available(buf, Called, 8) => CountInStream = Len(table.entries))

\* C4: read_box on a valid box whose stream ends before the declared end of
\* the box fails with TruncatedStream.
C4_TruncationDetected ==
    (Returned /\ ValidBox /\ Len(buf) < feed.lead + header.size) =>
        (~rres.ok /\ rres.err = "TruncatedStream")

\* The table read_box returns for the minimally-sized encoding of the entries
\* of the written box.
MinimalRead ==
    LET minimal == (IF feed.lead > 0 THEN FreeBox ELSE <<>>)
                     \o Redeclared(wres.out, 16 + 8 * Len(table.entries))
        hdr == BoxHeader_read(minimal, feed.lead)
    IN read_box(minimal, hdr.pos, hdr.size)

\* The stream holds the entries and, within the declared size, k >= 1 more bytes.
Padded ==
    /\ Returned
    /\ feed.pad >= 1
    /\ Len(buf) = feed.full
    /\ header.size = 16 + 8 * Len(table.entries) + feed.pad
    /\ CountInStream = Len(table.entries)

\* C5: read_box on a box with k >= 1 trailing bytes inside its declared size
\* succeeds and returns the table it returns for the minimally-sized box.
C5_SkipTolerance ==
    Padded => (rres.ok /\ MinimalRead.ok /\ rres.box = MinimalRead.box)

C5_Witness ==
    /\ Padded
    /\ rres.ok
    /\ feed.pad = MaxPad
    /\ Len(rres.box.entries) >= 1
    /\ buf[Called + 8 + 8 * Len(rres.box.entries) + 1] # 0

\* The reads of read_box have all succeeded and have gone past the declared
\* end of the box.
OverRead ==
    /\ Returned
    /\ Available(buf, Called, 8)
    /\ Available(buf, Called, 8 + 8 * CountInStream)
    /\ Called + 8 + 8 * CountInStream > box_start(Called) + header.size

\* C6: when the bytes consumed exceed the declared size, read_box fails with
\* SizeMismatch; it returns no table and does not move the position backward.
C6_OverReadIsError ==
    OverRead =>
        /\ ~rres.ok
        /\ rres.err = "SizeMismatch"
        /\ rres.pos >= Called + 8 + 8 * CountInStream

C8_PositionAfterRead ==
    (Returned /\ rres.ok /\ Called = feed.lead + HEADER_SIZE) =>
        /\ rres.pos = feed.lead + header.size
        /\ pc = "done" => pos = feed.lead + header.size
        /\ (pc = "next" /\ feed.follow
              /\ feed.lead + header.size = feed.full - Len(FreeBox)) =>
                (nxt.ok /\ nxt.name = FreeBoxTag /\ nxt.size = HEADER_SIZE
                   /\ pos = feed.full)

C8_Witness ==
    /\ pc = "next"
    /\ rres.ok
    /\ feed.follow
    /\ feed.lead > 0
    /\ feed.pad >= 1
    /\ Len(rres.box.entries) >= 1
    /\ nxt.name = FreeBoxTag

\* C9: a table read_box returns has exactly the n entries the entry count
\* announces, the i-th decoded from the 8 bytes at payload offset 8 + 8 * i,
\* in stream order; when a read step fails, no table is returned.
C9_DecodeCountExact ==
    Returned =>
        LET complete == /\ Available(buf, Called, 8)
                        /\ Available(buf, Called, 8 + 8 * CountInStream)
            n == CountInStream
        IN /\ rres.ok => complete
           /\ rres.ok =>
                /\ rres.box.version = buf[Called + 1]
                /\ rres.box.flags = BigEndianValue(buf, Called + 1, 3)
                /\ Len(rres.box.entries) = n
                /\ \A i \in 1..n :
                     LET off == Called + 8 + 8 * (i - 1)
                     IN /\ rres.box.entries[i].sample_count
                             = BigEndianValue(buf, off, 4)
                        /\ rres.box.entries[i].sample_offset
                             = Signed(BigEndianValue(buf, off + 4, 4))
           /\ ~complete => (~rres.ok /\ rres.box = NoBox)

C9_Witness ==
    /\ Returned
    /\ rres.ok
    /\ Len(rres.box.entries) = 2
    /\ rres.box.entries[1] # rres.box.entries[2]
    /\ rres.box.entries[2].sample_offset < 0
    /\ feed.pad >= 1

\* C10: the entry count field of a written box and the size write_box
\* declares agree, size = 16 + 8 * count, and the count field is the number of
\* 8-byte entries emitted, also when the entry number reaches the width of the
\* count field.
C10_CountAgreesWithSize ==
    (pc # "init" /\ wres.ok) =>
        LET field == BigEndianValue(wres.out, 12, 4)
        IN /\ wres.size = 16 + 8 * field
           /\ 8 * field = Len(wres.out) - 16

====
